---- MODULE Spec2Model ----
(***************************************************************************)
(* EduPulse quiz backend: the quiz-taking endpoints (start, save-answer,   *)
(* submit, retake and the read-only views), their permission classes and   *)
(* the scoring routine, as a state machine over the QuizAttempt and        *)
(* QuizResponse tables.                                                    *)
(*                                                                         *)
(* Conventions.  Every request is one atomic action (a request runs one    *)
(* handler; the concurrent case is a separate specification).  None is     *)
(* NoneVal for numbers and "None" for the nullable boolean is_correct.     *)
(* Times are seconds; scores are kept in hundredths (a DecimalField with   *)
(* two decimal places), so 100.00 is 10000.  The free-text attempt fields  *)
(* feedback and user_difficulty_rating take no part in any decision and    *)
(* are left out.                                                           *)
(***************************************************************************)
EXTENDS Integers, Sequences, FiniteSets, TLC

VARIABLES actor, attempts, responses, nextAttemptId, now, last, scoreCall,
          mood_entries, refresh_tokens, sync_records, staff, inflight

\* the tables of the apps beside the quizzes: tracking (MoodEntry), the
\* refresh tokens of the JWT library, sync (DataSyncRecord) and the users
\* with is_staff
siteVars == <<mood_entries, refresh_tokens, sync_records, staff>>

vars == <<actor, attempts, responses, nextAttemptId, now, last, scoreCall,
          siteVars, inflight>>

(***************************************************************************)
(* Bounds of the model.                                                    *)
(***************************************************************************)
\* number of clock ticks the model follows
MaxTicks == 2
\* seconds per clock tick
TickSeconds == 45
\* the greatest primary key a QuizAttempt row gets (keys are never reused)
MaxAttemptId == 3
\* bounds of the inputs of calculate_score: the counts, and the greatest
\* difficulty_bonus in tenths
MaxCount == 3
MaxBonusTenths == 15
\* the greatest number of MoodEntry rows the model follows
MaxMoods == 2
\* the greatest number of refresh tokens issued
MaxTokens == 2

NoneVal == -1

(***************************************************************************)
(* Users and roles (core.models.UserProfile.role).                         *)
(***************************************************************************)
Users == {"student", "teacher", "admin"}
Anonymous == "anon"
Requesters == Users \cup {Anonymous}

is_authenticated(user) == user # Anonymous
has_profile(user) == user \in Users
profile_role(user) == user

(***************************************************************************)
(* The quiz catalogue.  No endpoint creates, changes or deletes a quiz, a  *)
(* question or a choice, so the catalogue is fixed: quiz 1 is active, has  *)
(* a time limit of one minute and two questions; quiz 2 is inactive.       *)
(* Quizzes 3 and 4 are active quizzes without questions yet, of the other  *)
(* two difficulties.  Requests name quiz 1 or quiz 2.                      *)
(***************************************************************************)
Quizzes == {1, 2, 3, 4}
QuizIds == {1, 2}
\* the quiz without questions that requests name
EmptyQuizIds == {3}
Questions == {1, 2, 3}
Choices == {1, 2, 3, 4, 5, 6}

quiz_is_active(q) == q # 2
\* minutes; 0 stands for None (the code tests "if quiz.time_limit")
quiz_time_limit(q) == IF q = 1 THEN 1 ELSE 0
DefaultPassingScore == 70
quiz_passing_score(q) == DefaultPassingScore
question_quiz(qn) == IF qn \in {1, 2} THEN 1 ELSE 2
quiz_questions(q) == {qn \in Questions : question_quiz(qn) = q}
DefaultPoints == 1
question_points(qn) == DefaultPoints
question_type(qn) ==
    CASE qn = 1 -> "multiple_choice"
      [] qn = 2 -> "true_false"
      [] OTHER -> "short_answer"
question_is_required(qn) == TRUE
\* question 1: choices 1, 2 (both correct) and 3; question 2: choices 4
\* (correct) and 5; question 3: choice 6 (correct)
choice_question(c) ==
    CASE c \in {1, 2, 3} -> 1
      [] c \in {4, 5} -> 2
      [] OTHER -> 3
choice_is_correct(c) == c \in {1, 2, 4, 6}
question_choices(qn) == {c \in Choices : choice_question(c) = qn}

(***************************************************************************)
(* common.utils.calculate_score, in exact arithmetic.                      *)
(*   correct_answers, total_questions, time_taken : integers               *)
(*   time_limit : minutes, 0 for None                                      *)
(*   bonus_tenths : difficulty_bonus in tenths (10 is 1.0)                 *)
(* The result is in hundredths.  round(x, 2) is taken on the exact value   *)
(* (half to even); the binary rounding error of the float is not modelled. *)
(***************************************************************************)
Min(a, b) == IF a < b THEN a ELSE b
Max(a, b) == IF a > b THEN a ELSE b

\* n / d rounded to the nearest integer, ties to even (d > 0)
RoundDiv(n, d) ==
    LET q == n \div d
        r == n % d
    IN  IF 2 * r < d THEN q
        ELSE IF 2 * r > d THEN q + 1
        ELSE IF q % 2 = 0 THEN q ELSE q + 1

\* time_bonus as the fraction num/den of a point (lines 38-44)
time_bonus_num(time_taken, time_limit) ==
    LET time_limit_seconds == time_limit * 60
    IN  IF time_limit # 0 /\ time_taken < time_limit_seconds
        THEN Min((time_limit_seconds - time_taken) * 10, 10 * time_limit_seconds)
        ELSE 0
time_bonus_den(time_limit) == IF time_limit # 0 THEN time_limit * 60 ELSE 1

\* final_score in hundredths before the clamp (lines 35, 47 and the round of 50)
final_score(correct_answers, total_questions, time_taken, time_limit, bonus_tenths) ==
    LET bn == time_bonus_num(time_taken, time_limit)
        bd == time_bonus_den(time_limit)
    IN  RoundDiv((100 * correct_answers * bd + bn * total_questions) * bonus_tenths * 10,
                 total_questions * bd)

\* a faulty variant: the upper limit is missing
clamp_no_upper(x) == Max(0, x)

\* max(0.0, min(100.0, ...)) of line 50
clamp(x) == Max(0, Min(10000, x))

calculate_score(correct_answers, total_questions, time_taken, time_limit, bonus_tenths) ==
    IF total_questions = 0 THEN 0
    ELSE clamp(final_score(correct_answers, total_questions, time_taken,
                           time_limit, bonus_tenths))

(***************************************************************************)
(* common.utils.sanitize_user_input on the texts the model submits: tags   *)
(* are removed, the rest is kept.                                          *)
(***************************************************************************)
Texts == {"", "a", "<b>a</b>"}
sanitize_user_input(text) ==
    CASE text = "" -> ""
      [] text = "<b>a</b>" -> "a"
      [] OTHER -> text

(***************************************************************************)
(* The tables.  attempts: QuizAttempt rows; responses: QuizResponse rows.  *)
(***************************************************************************)
AttemptRow(id, user, quiz, started_at) ==
    [id |-> id, user |-> user, quiz |-> quiz, started_at |-> started_at,
     completed_at |-> NoneVal, score |-> NoneVal, is_passed |-> FALSE,
     time_taken |-> NoneVal]

ResponseRow(attempt, question, text_answer) ==
    [attempt |-> attempt, question |-> question, selected_choices |-> {},
     text_answer |-> text_answer, is_correct |-> "None", points_earned |-> 0]

\* a faulty variant: the table has no unique_together
insert_attempt_unchecked(atts, row) == [ok |-> TRUE, attempts |-> atts \cup {row}]

\* QuizAttempt.objects.create: unique_together ['user', 'quiz'] makes the
\* INSERT of a second row of the pair raise IntegrityError
insert_attempt(atts, row) ==
    IF \E a \in atts : a.user = row.user /\ a.quiz = row.quiz
    THEN [ok |-> FALSE, attempts |-> atts]
    ELSE [ok |-> TRUE, attempts |-> atts \cup {row}]

\* QuizAttempt.objects.filter(user=user, quiz=quiz)
user_attempts(user, quiz) == {a \in attempts : a.user = user /\ a.quiz = quiz}
\* a faulty variant: the filter on completed_at finds nothing
completed_attempts_never(user, quiz) == {}

\* .filter(user=user, quiz=quiz, completed_at__isnull=False)
completed_attempts(user, quiz) ==
    {a \in user_attempts(user, quiz) : a.completed_at # NoneVal}
\* .filter(user=user, quiz=quiz, completed_at__isnull=True)
active_attempts(user, quiz) ==
    {a \in user_attempts(user, quiz) : a.completed_at = NoneVal}
\* QuerySet.first(): the row with the least primary key
first(rows) == CHOOSE a \in rows : \A b \in rows : a.id <= b.id
\* attempt.responses
attempt_responses(resps, attempt_id) == {r \in resps : r.attempt = attempt_id}

(***************************************************************************)
(* common.permissions                                                      *)
(***************************************************************************)
\* HasQuizAccess.has_object_permission; the Quiz model has no expires_at,
\* starts_at, course or prerequisites attribute, so those tests pass
HasQuizAccess(user, quiz) ==
    IF ~is_authenticated(user) THEN FALSE
    ELSE IF has_profile(user) /\ profile_role(user) \in {"admin", "teacher"} THEN TRUE
    ELSE IF ~quiz_is_active(quiz) THEN FALSE
    ELSE TRUE

\* a faulty variant: the time limit is not looked at
time_limit_not_checked(quiz, attempt) == FALSE

\* seconds since the attempt started exceed the quiz's limit
time_limit_exceeded(quiz, attempt) ==
    /\ quiz_time_limit(quiz) # 0
    /\ now - attempt.started_at > quiz_time_limit(quiz) * 60

\* a faulty variant: a completed attempt does not refuse
CanSubmitQuiz_ignores_completed(user, quiz_id) ==
    IF ~is_authenticated(user) THEN FALSE
    ELSE IF quiz_id \notin Quizzes THEN FALSE
    ELSE IF ~HasQuizAccess(user, quiz_id) THEN FALSE
    ELSE IF active_attempts(user, quiz_id) # {}
            /\ time_limit_exceeded(quiz_id, first(active_attempts(user, quiz_id)))
         THEN FALSE
    ELSE TRUE

\* CanSubmitQuiz.has_permission
CanSubmitQuiz(user, quiz_id) ==
    IF ~is_authenticated(user) THEN FALSE
    ELSE IF quiz_id \notin Quizzes THEN FALSE
    ELSE IF ~HasQuizAccess(user, quiz_id) THEN FALSE
    ELSE IF completed_attempts(user, quiz_id) # {} THEN FALSE
    ELSE IF active_attempts(user, quiz_id) # {}
            /\ time_limit_exceeded(quiz_id, first(active_attempts(user, quiz_id)))
         THEN FALSE
    ELSE TRUE

(***************************************************************************)
(* Requests.  An answer of a submit request is a record; question_id 0 is  *)
(* an answer without question_id.                                          *)
(***************************************************************************)
Answer(question_id, selected_choice_ids, text_answer) ==
    [question_id |-> question_id, selected_choice_ids |-> selected_choice_ids,
     text_answer |-> text_answer]

\* the answers the model sends
RightQ1 == Answer(1, {1, 2}, "")          \* question 1, right
PartQ1 == Answer(1, {1}, "")              \* question 1, one of its two right choices
MixedQ1 == Answer(1, {1, 2, 4}, "")       \* question 1, right plus a choice of question 2
RightQ2 == Answer(2, {4}, "")             \* question 2, right
WrongQ2 == Answer(2, {5}, "")             \* question 2, wrong
TextQ2 == Answer(2, {}, "<b>a</b>")       \* question 2, text only
OtherQuiz == Answer(3, {6}, "")           \* a question of quiz 2
NoQuestion == Answer(0, {}, "")           \* no question_id

\* save-answer requests
AnswerSet == {RightQ1, PartQ1, RightQ2, TextQ2, OtherQuiz}

\* the answers lists of submit requests
AnswerLists ==
    { <<>>,
      <<RightQ1>>, <<PartQ1>>, <<MixedQ1>>, <<TextQ2>>,
      <<RightQ1, RightQ2>>, <<RightQ1, WrongQ2>>, <<RightQ1, RightQ1>>,
      <<RightQ1, OtherQuiz>>, <<RightQ1, NoQuestion>> }

(***************************************************************************)
(* common.utils.validate_quiz_submission: the set of errors; the           *)
(* submission is valid when it is empty.  The answers of the model are     *)
(* always a list of dictionaries.                                          *)
(***************************************************************************)
\* a faulty variant: a required question without an answer is an error
validation_errors_required(answers, quiz_id, user) ==
    IF quiz_id \notin Quizzes \/ user \notin Users THEN {"Invalid quiz or user"}
    ELSE IF Len(answers) = 0 THEN {"No answers provided"}
    ELSE {"Missing question_id in answer" :
             i \in {j \in 1..Len(answers) : answers[j].question_id = 0}}
         \cup {"Missing answers for required questions" :
                  qn \in {q \in quiz_questions(quiz_id) :
                             /\ question_is_required(q)
                             /\ \A j \in 1..Len(answers) : answers[j].question_id # q}}

validation_errors(answers, quiz_id, user) ==
    IF quiz_id \notin Quizzes \/ user \notin Users THEN {"Invalid quiz or user"}
    ELSE IF Len(answers) = 0 THEN {"No answers provided"}
    ELSE IF completed_attempts(user, quiz_id) # {}
         THEN {"Quiz has already been submitted"}
    ELSE IF active_attempts(user, quiz_id) # {}
            /\ time_limit_exceeded(quiz_id, first(active_attempts(user, quiz_id)))
         THEN {"Time limit exceeded"}
    ELSE {"Missing question_id in answer" :
             i \in {j \in 1..Len(answers) : answers[j].question_id = 0}}

validate_quiz_submission(answers, quiz_id, user) ==
    validation_errors(answers, quiz_id, user) = {}

(***************************************************************************)
(* Responses of the endpoints: the status and the fields of the body the   *)
(* properties read.                                                         *)
(***************************************************************************)
Response(op, user, quiz, status) ==
    [op |-> op, user |-> user, quiz |-> quiz, status |-> status,
     attempt_id |-> NoneVal, score |-> NoneVal, is_passed |-> FALSE,
     correct_answers |-> NoneVal, total_questions |-> NoneVal,
     progress |-> NoneVal, completed |-> FALSE, listed |-> {}]

\* what a request leaves behind: the two tables, the key sequence, the response
Outcome(atts, resps, next_id, response) ==
    [attempts |-> atts, responses |-> resps, nextAttemptId |-> next_id,
     response |-> response]

\* a request that only answers
Unchanged(response) == Outcome(attempts, responses, nextAttemptId, response)

\* a faulty variant: the lookup does not filter on is_active
quiz_found_inactive_too(quiz_id) == quiz_id \in Quizzes

\* get_object_or_404(Quiz, pk=quiz_id, is_active=True) finds the quiz
quiz_found(quiz_id) == quiz_id \in Quizzes /\ quiz_is_active(quiz_id)

(***************************************************************************)
(* Grading of one answer (submit_quiz.py 124-140 and 319-335).             *)
(***************************************************************************)
\* Choice.objects.filter(pk__in=selected_choice_ids, question=question)
selected_choices_of(question, selected_choice_ids) ==
    {c \in selected_choice_ids : c \in Choices /\ choice_question(c) = question}

\* question.choices.filter(is_correct=True)
correct_choices_of(question) ==
    {c \in question_choices(question) : choice_is_correct(c)}

\* a faulty variant: every selected choice is right, but not all right ones are needed
is_correct_subset(question, selected_choice_ids) ==
    selected_choices_of(question, selected_choice_ids) \subseteq correct_choices_of(question)

\* set(selected_choices) == set(correct_choices)
is_correct_selection(question, selected_choice_ids) ==
    selected_choices_of(question, selected_choice_ids) = correct_choices_of(question)

\* QuizResponse.objects.get_or_create(attempt=, question=, defaults={'text_answer':})
get_or_create_response(resps, attempt_id, question, text_answer) ==
    LET existing == {r \in resps : r.attempt = attempt_id /\ r.question = question}
    IN  IF existing # {} THEN CHOOSE r \in existing : TRUE
        ELSE ResponseRow(attempt_id, question, text_answer)

\* the row after the if / elif / else that sets selected_choices and is_correct
graded_response(row, question, selected_choice_ids) ==
    IF selected_choice_ids # {}
    THEN [row EXCEPT
            !.selected_choices = selected_choices_of(question, selected_choice_ids),
            !.is_correct = IF is_correct_selection(question, selected_choice_ids)
                           THEN "True" ELSE "False"]
    ELSE [row EXCEPT !.is_correct = "None"]

\* response.save(): the row replaces the stored row of (attempt, question)
save_response(resps, row) ==
    {r \in resps : ~(r.attempt = row.attempt /\ r.question = row.question)} \cup {row}

(***************************************************************************)
(* SubmitQuizView.post, the loop over the answers (116-149).  The fold     *)
(* carries the responses table and the counters; not_found is set when     *)
(* get_object_or_404(quiz.questions, pk=question_id) raises.               *)
(***************************************************************************)
\* line 142, "if response.is_correct:" (None and False are both falsy)
earns_points(row) == row.is_correct = "True"

RECURSIVE process_answers(_, _, _, _, _)
process_answers(acc, quiz, attempt_id, answers, i) ==
    IF i > Len(answers) \/ acc.not_found THEN acc
    ELSE LET ans == answers[i]
             question == ans.question_id
         IN  IF question \notin quiz_questions(quiz)
             THEN [acc EXCEPT !.not_found = TRUE]
             ELSE LET row == graded_response(
                                get_or_create_response(acc.responses, attempt_id, question,
                                    sanitize_user_input(ans.text_answer)),
                                question, ans.selected_choice_ids)
                      points == IF earns_points(row) THEN question_points(question) ELSE 0
                      saved == [row EXCEPT !.points_earned = points]
                  IN  process_answers(
                        [responses |-> save_response(acc.responses, saved),
                         total_points |-> acc.total_points + question_points(question),
                         points_earned |-> acc.points_earned + points,
                         correct_answers |-> acc.correct_answers
                                             + (IF earns_points(row) THEN 1 ELSE 0),
                         not_found |-> FALSE],
                        quiz, attempt_id, answers, i + 1)

\* line 162: score >= quiz.passing_score (the score is in hundredths)
passes(score, quiz) == score >= quiz_passing_score(quiz) * 100

(***************************************************************************)
(* SubmitQuizView.post with its permission class CanSubmitQuiz.  The       *)
(* handler is @transaction.atomic: a 404 raised in the loop rolls back the *)
(* attempt and the responses written before it.                            *)
(***************************************************************************)
\* a faulty variant: the handler is not atomic, and what was written before
\* the 404 stays
submit_write_no_rollback(user, quiz_id, answers) ==
    LET existing == user_attempts(user, quiz_id)
        created == existing = {}
        attempt == IF created THEN AttemptRow(nextAttemptId, user, quiz_id, now)
                   ELSE first(existing)
        done == process_answers(
                    [responses |-> responses, total_points |-> 0, points_earned |-> 0,
                     correct_answers |-> 0, not_found |-> FALSE],
                    quiz_id, attempt.id, answers, 1)
    IN  IF done.not_found
        THEN Outcome(attempts \cup {attempt}, done.responses,
                     IF created THEN nextAttemptId + 1 ELSE nextAttemptId,
                     Response("submit", user, quiz_id, 404))
        ELSE Unchanged(Response("submit", user, quiz_id, 200))

\* the handler from get_or_create on (98-172): the attempt, the loop, the
\* score and attempt.save()
submit_write(user, quiz_id, answers) ==
    LET existing == user_attempts(user, quiz_id)
        created == existing = {}
        attempt == IF created THEN AttemptRow(nextAttemptId, user, quiz_id, now)
                   ELSE first(existing)
        time_taken_seconds == now - attempt.started_at
        total_questions == Cardinality(quiz_questions(quiz_id))
        done == process_answers(
                    [responses |-> responses, total_points |-> 0, points_earned |-> 0,
                     correct_answers |-> 0, not_found |-> FALSE],
                    quiz_id, attempt.id, answers, 1)
        score == calculate_score(done.correct_answers, total_questions,
                                 time_taken_seconds, quiz_time_limit(quiz_id), 10)
        saved == [attempt EXCEPT !.score = score,
                                 !.is_passed = passes(score, quiz_id),
                                 !.completed_at = now,
                                 !.time_taken = time_taken_seconds]
    IN  IF done.not_found
        THEN Unchanged(Response("submit", user, quiz_id, 404))
        ELSE Outcome((attempts \ {attempt}) \cup {saved},
                     done.responses,
                     IF created THEN nextAttemptId + 1 ELSE nextAttemptId,
                     [Response("submit", user, quiz_id, 200) EXCEPT
                        !.attempt_id = attempt.id,
                        !.score = score,
                        !.is_passed = saved.is_passed,
                        !.correct_answers = done.correct_answers,
                        !.total_questions = total_questions])

submit_outcome(user, quiz_id, answers) ==
    IF ~CanSubmitQuiz(user, quiz_id)
    THEN Unchanged(Response("submit", user, quiz_id, 403))
    ELSE IF ~quiz_found(quiz_id)
    THEN Unchanged(Response("submit", user, quiz_id, 404))
    ELSE IF ~validate_quiz_submission(answers, quiz_id, user)
    THEN Unchanged(Response("submit", user, quiz_id, 400))
    ELSE submit_write(user, quiz_id, answers)

(***************************************************************************)
(* SaveAnswerView.post with its permission class CanSubmitQuiz.            *)
(***************************************************************************)
save_answer_outcome(user, quiz_id, question_id, selected_choice_ids, text_answer) ==
    IF ~CanSubmitQuiz(user, quiz_id)
    THEN Unchanged(Response("save_answer", user, quiz_id, 403))
    ELSE IF ~quiz_found(quiz_id) \/ question_id \notin quiz_questions(quiz_id)
    THEN Unchanged(Response("save_answer", user, quiz_id, 404))
    ELSE
    LET existing == user_attempts(user, quiz_id)
        created == existing = {}
        attempt == IF created THEN AttemptRow(nextAttemptId, user, quiz_id, now)
                   ELSE first(existing)
        row == graded_response(
                   get_or_create_response(responses, attempt.id, question_id,
                                          sanitize_user_input(text_answer)),
                   question_id, selected_choice_ids)
    IN  Outcome(attempts \cup {attempt},
                save_response(responses, row),
                IF created THEN nextAttemptId + 1 ELSE nextAttemptId,
                [Response("save_answer", user, quiz_id, 200) EXCEPT
                    !.attempt_id = attempt.id])

(***************************************************************************)
(* StartQuizView.post (fetch_quiz.py 165-205).  The permission class       *)
(* HasQuizAccess defines has_object_permission only, which the framework   *)
(* calls for no APIView; the handler calls it itself.  Creating a second   *)
(* row for (user, quiz) raises IntegrityError (unique_together): 500.      *)
(***************************************************************************)
\* a faulty variant: an active attempt is replaced by a new one
start_outcome_no_reuse(user, quiz_id) ==
    IF ~quiz_found(quiz_id)
    THEN Unchanged(Response("start", user, quiz_id, 404))
    ELSE IF ~HasQuizAccess(user, quiz_id)
    THEN Unchanged(Response("start", user, quiz_id, 403))
    ELSE Outcome((attempts \ user_attempts(user, quiz_id))
                    \cup {AttemptRow(nextAttemptId, user, quiz_id, now)},
                 responses, nextAttemptId + 1,
                 [Response("start", user, quiz_id, 201) EXCEPT
                     !.attempt_id = nextAttemptId])

start_outcome(user, quiz_id) ==
    IF ~quiz_found(quiz_id)
    THEN Unchanged(Response("start", user, quiz_id, 404))
    ELSE IF ~HasQuizAccess(user, quiz_id)
    THEN Unchanged(Response("start", user, quiz_id, 403))
    ELSE IF active_attempts(user, quiz_id) # {}
    THEN Unchanged([Response("start", user, quiz_id, 200) EXCEPT
                       !.attempt_id = first(active_attempts(user, quiz_id)).id])
    ELSE IF user_attempts(user, quiz_id) # {}
    THEN Unchanged(Response("start", user, quiz_id, 500))
    ELSE Outcome(attempts \cup {AttemptRow(nextAttemptId, user, quiz_id, now)},
                 responses, nextAttemptId + 1,
                 [Response("start", user, quiz_id, 201) EXCEPT
                     !.attempt_id = nextAttemptId])

(***************************************************************************)
(* RetakeQuizView.post (submit_quiz.py 457-478).  The handler does not     *)
(* call has_object_permission; for AnonymousUser the filter on user raises *)
(* TypeError before anything is deleted: 500.  Deleting an attempt deletes *)
(* its responses (on_delete=CASCADE).                                      *)
(***************************************************************************)
\* a faulty variant: the responses of the deleted attempts are kept
cascade_keeps_responses(resps, deleted) == resps

\* QuizResponse.attempt is on_delete=CASCADE
cascade_delete(resps, deleted) ==
    {r \in resps : r.attempt \notin {a.id : a \in deleted}}

retake_outcome(user, quiz_id) ==
    IF ~quiz_found(quiz_id)
    THEN Unchanged(Response("retake", user, quiz_id, 404))
    ELSE IF ~is_authenticated(user)
    THEN Unchanged(Response("retake", user, quiz_id, 500))
    ELSE LET deleted == user_attempts(user, quiz_id)
         IN  Outcome((attempts \ deleted)
                        \cup {AttemptRow(nextAttemptId, user, quiz_id, now)},
                     cascade_delete(responses, deleted),
                     nextAttemptId + 1,
                     [Response("retake", user, quiz_id, 201) EXCEPT
                         !.attempt_id = nextAttemptId])

(***************************************************************************)
(* The read-only views.  Each looks the quiz up first (404), then calls    *)
(* HasQuizAccess itself (403).                                             *)
(***************************************************************************)
\* QuizDetailView.get
detail_outcome(user, quiz_id) ==
    IF ~quiz_found(quiz_id) THEN Unchanged(Response("detail", user, quiz_id, 404))
    ELSE IF ~HasQuizAccess(user, quiz_id)
    THEN Unchanged(Response("detail", user, quiz_id, 403))
    ELSE Unchanged(Response("detail", user, quiz_id, 200))

\* the second class named StartQuizView: get lists the questions of the quiz
questions_outcome(user, quiz_id) ==
    IF ~quiz_found(quiz_id) THEN Unchanged(Response("questions", user, quiz_id, 404))
    ELSE IF ~HasQuizAccess(user, quiz_id)
    THEN Unchanged(Response("questions", user, quiz_id, 403))
    ELSE Unchanged([Response("questions", user, quiz_id, 200) EXCEPT
                       !.listed = quiz_questions(quiz_id)])

\* a faulty variant: the ratio is not multiplied by 100
progress_of_ratio(answered_questions, total_questions) ==
    IF total_questions > 0
    THEN RoundDiv(answered_questions * 100, total_questions)
    ELSE 0

\* progress in hundredths of a percent: round(answered / total * 100, 2)
progress_of(answered_questions, total_questions) ==
    IF total_questions > 0
    THEN RoundDiv(answered_questions * 10000, total_questions)
    ELSE 0

\* QuizProgressView.get
progress_outcome(user, quiz_id) ==
    IF ~quiz_found(quiz_id) THEN Unchanged(Response("progress", user, quiz_id, 404))
    ELSE IF ~HasQuizAccess(user, quiz_id)
    THEN Unchanged(Response("progress", user, quiz_id, 403))
    ELSE IF user_attempts(user, quiz_id) = {}
    THEN Unchanged([Response("progress", user, quiz_id, 200) EXCEPT !.progress = 0])
    ELSE LET attempt == first(user_attempts(user, quiz_id))
         IN  Unchanged([Response("progress", user, quiz_id, 200) EXCEPT
                 !.attempt_id = attempt.id,
                 !.progress = progress_of(
                                 Cardinality(attempt_responses(responses, attempt.id)),
                                 Cardinality(quiz_questions(quiz_id))),
                 !.completed = attempt.completed_at # NoneVal,
                 !.score = attempt.score])

\* QuizResultView.get
result_outcome(user, quiz_id) ==
    IF ~quiz_found(quiz_id) THEN Unchanged(Response("result", user, quiz_id, 404))
    ELSE IF ~HasQuizAccess(user, quiz_id)
    THEN Unchanged(Response("result", user, quiz_id, 403))
    ELSE IF user_attempts(user, quiz_id) = {}
    THEN Unchanged(Response("result", user, quiz_id, 404))
    ELSE LET attempt == first(user_attempts(user, quiz_id))
         IN  Unchanged([Response("result", user, quiz_id, 200) EXCEPT
                 !.attempt_id = attempt.id,
                 !.score = attempt.score,
                 !.is_passed = attempt.is_passed,
                 !.completed = attempt.completed_at # NoneVal,
                 !.correct_answers =
                     Cardinality({r \in attempt_responses(responses, attempt.id) :
                                     r.is_correct = "True"}),
                 !.total_questions = Cardinality(quiz_questions(quiz_id))])

\* QuizFeedbackView.get
feedback_outcome(user, quiz_id) ==
    IF ~quiz_found(quiz_id) THEN Unchanged(Response("feedback", user, quiz_id, 404))
    ELSE IF ~HasQuizAccess(user, quiz_id)
    THEN Unchanged(Response("feedback", user, quiz_id, 403))
    ELSE IF user_attempts(user, quiz_id) = {}
    THEN Unchanged(Response("feedback", user, quiz_id, 404))
    ELSE LET attempt == first(user_attempts(user, quiz_id))
         IN  Unchanged([Response("feedback", user, quiz_id, 200) EXCEPT
                 !.attempt_id = attempt.id,
                 !.score = attempt.score,
                 !.listed = {r.question : r \in attempt_responses(responses, attempt.id)}])

\* QuizAnalyticsView.get
analytics_outcome(user, quiz_id) ==
    IF ~quiz_found(quiz_id) THEN Unchanged(Response("analytics", user, quiz_id, 404))
    ELSE IF ~HasQuizAccess(user, quiz_id)
    THEN Unchanged(Response("analytics", user, quiz_id, 403))
    ELSE IF user_attempts(user, quiz_id) = {}
    THEN Unchanged(Response("analytics", user, quiz_id, 200))
    ELSE LET attempt == first(user_attempts(user, quiz_id))
         IN  Unchanged([Response("analytics", user, quiz_id, 200) EXCEPT
                 !.attempt_id = attempt.id,
                 !.score = attempt.score,
                 !.is_passed = attempt.is_passed,
                 !.completed = attempt.completed_at # NoneVal])

(***************************************************************************)
(* QuizListView.get.  IsStudentOrReadOnly lets every GET through.  The     *)
(* latest mood level is an input here (0: the user has no mood entry); no  *)
(* category parameter is passed.                                           *)
(***************************************************************************)
Difficulties == {"easy", "medium", "hard"}
quiz_difficulty(q) == IF q = 1 THEN "medium" ELSE IF q = 4 THEN "hard" ELSE "easy"
MoodLevels == 0..5

list_outcome(user, difficulty, mood_based, latest_mood) ==
    LET active == {q \in Quizzes : quiz_is_active(q)}
        filtered == IF difficulty # ""
                    THEN {q \in active : quiz_difficulty(q) = difficulty}
                    ELSE active
        recommended ==
            IF is_authenticated(user) /\ mood_based /\ latest_mood # 0
            THEN IF latest_mood \in {1, 2}
                 THEN {q \in filtered : quiz_difficulty(q) = "easy"}
                 ELSE IF latest_mood \in {4, 5}
                 THEN {q \in filtered : quiz_difficulty(q) \in {"medium", "hard"}}
                 ELSE filtered
            ELSE filtered
    IN  Unchanged([Response("list", user, 0, 200) EXCEPT !.listed = recommended])

(***************************************************************************)
(* tracking: MoodEntry rows, in the order of their timestamps (the         *)
(* timestamp is set when the row is created), and MoodEntryView.post.      *)
(***************************************************************************)
MoodChoices == 1..5

\* the status of a request refused for want of credentials
NotAuthenticatedStatus == 403

MoodEntry(user, mood_level) == [user |-> user, mood_level |-> mood_level]

\* the places of the user's entries in the table
user_mood_entries(user) ==
    {i \in 1..Len(mood_entries) : mood_entries[i].user = user}

\* a faulty variant: order_by('timestamp'), the oldest entry
oldest_mood_level(user) ==
    IF user_mood_entries(user) = {} THEN 0
    ELSE mood_entries[CHOOSE i \in user_mood_entries(user) :
                         \A j \in user_mood_entries(user) : i <= j].mood_level

\* MoodEntry.objects.filter(user=request.user).order_by('-timestamp').first():
\* the level of the newest entry, 0 when the user has none
latest_mood_level(user) ==
    IF user_mood_entries(user) = {} THEN 0
    ELSE mood_entries[CHOOSE i \in user_mood_entries(user) :
                         \A j \in user_mood_entries(user) : i >= j].mood_level

\* MoodEntryView.post (IsAuthenticated; MoodTrackingSerializer accepts the
\* levels of MOOD_CHOICES): the table after the request and the status
mood_post_outcome(user, mood_level) ==
    IF ~is_authenticated(user)
    THEN [mood_entries |-> mood_entries, status |-> NotAuthenticatedStatus]
    ELSE IF mood_level \notin MoodChoices
    THEN [mood_entries |-> mood_entries, status |-> 400]
    ELSE [mood_entries |-> Append(mood_entries, MoodEntry(user, mood_level)),
          status |-> 201]

(***************************************************************************)
(* core: login, logout and refresh.  A refresh token is a row              *)
(* [id, user, expired, blacklisted]; RefreshToken(text) accepts the text   *)
(* of an issued token that is neither expired nor blacklisted.  Token 0 is *)
(* a text that is no token.                                                *)
(***************************************************************************)
TokenIds == 0..MaxTokens

RefreshTokenRow(id, user) ==
    [id |-> id, user |-> user, expired |-> FALSE, blacklisted |-> FALSE]

\* RefreshToken(refresh) raises no TokenError
token_is_valid(token) ==
    \E t \in refresh_tokens : t.id = token /\ ~t.expired /\ ~t.blacklisted

\* LoginView.post: RefreshToken.for_user(user) when the credentials are right
login_outcome(user, password_ok) ==
    IF ~password_ok \/ ~is_authenticated(user)
    THEN [refresh_tokens |-> refresh_tokens, status |-> 400]
    ELSE [refresh_tokens |-> refresh_tokens
                \cup {RefreshTokenRow(Cardinality(refresh_tokens) + 1, user)},
          status |-> 200]

\* LogoutView.post (IsAuthenticated): LogoutSerializer validates the token;
\* the call of token.blacklist() is commented out
logout_outcome(user, token) ==
    IF ~is_authenticated(user)
    THEN [refresh_tokens |-> refresh_tokens, status |-> NotAuthenticatedStatus]
    ELSE IF ~token_is_valid(token)
    THEN [refresh_tokens |-> refresh_tokens, status |-> 400]
    ELSE [refresh_tokens |-> refresh_tokens, status |-> 200]

\* what TokenRefreshSerializer does with the refresh token it was given,
\* by the configuration of the JWT library: nothing, or blacklist it
RotationModes == {"keep", "blacklist"}

\* RefreshTokenView.post (AllowAny).  An invalid token makes the serializer
\* raise; the status is then 400 or, the TokenError being no
\* ValidationError, 500.
refresh_outcome(token, rotation, refused) ==
    IF ~token_is_valid(token)
    THEN [refresh_tokens |-> refresh_tokens, status |-> refused]
    ELSE [refresh_tokens |->
             IF rotation = "blacklist"
             THEN {IF t.id = token THEN [t EXCEPT !.blacklisted = TRUE] ELSE t :
                      t \in refresh_tokens}
             ELSE refresh_tokens,
          status |-> 200]

(***************************************************************************)
(* common.permissions.IsAdminUser and IsAdminOnly.  The profile of a user  *)
(* is user.profile (related_name='profile'); no user has an attribute      *)
(* userprofile.                                                            *)
(***************************************************************************)
is_staff(user) == user \in staff
has_userprofile(user) == FALSE

IsAdminUser(user) ==
    /\ is_authenticated(user)
    /\ \/ is_staff(user)
       \/ has_userprofile(user) /\ profile_role(user) = "admin"

IsAdminOnly(user) ==
    /\ is_authenticated(user)
    /\ \/ is_staff(user)
       \/ has_profile(user) /\ profile_role(user) = "admin"

\* AdminUserListView and the other admin views: permission_classes =
\* [IsAdminUser]
admin_status(user) == IF IsAdminUser(user) THEN 200 ELSE 403

(***************************************************************************)
(* sync: the seven views, each handler of each.                            *)
(***************************************************************************)
SyncHandlers == {<<"sync", "POST">>, <<"conflicts", "POST">>, <<"status", "GET">>,
                 <<"offline-data", "GET">>, <<"offline-data", "POST">>,
                 <<"history", "GET">>, <<"force", "POST">>,
                 <<"settings", "GET">>, <<"settings", "POST">>}

\* the request bodies of the model
Bodies == {"", "changes"}

\* a faulty variant: a sync writes a DataSyncRecord
sync_outcome_records(user, handler, body) ==
    IF ~is_authenticated(user)
    THEN [sync_records |-> sync_records, status |-> NotAuthenticatedStatus,
          body_status |-> ""]
    ELSE [sync_records |-> sync_records \cup {[user_id |-> user, sync_time |-> now]},
          status |-> 200, body_status |-> "success"]

\* the handlers of sync_views.py (IsAuthenticated): the status code and the
\* 'status' of the body
sync_outcome(user, handler, body) ==
    IF ~is_authenticated(user)
    THEN [sync_records |-> sync_records, status |-> NotAuthenticatedStatus,
          body_status |-> ""]
    ELSE [sync_records |-> sync_records,
          status |-> IF handler = <<"offline-data", "POST">> THEN 201 ELSE 200,
          body_status |-> "success"]

(***************************************************************************)
(* The state machine.                                                      *)
(***************************************************************************)
\* the requests in flight at the same time (the concurrent specification).
\* A request is at the step pc of its handler; overlapped says that the
\* other request was in flight during it; seen is what its transaction read.
Slots == {1, 2}

Request(op, pc, quiz_id, answers, overlapped) ==
    [op |-> op, pc |-> pc, quiz |-> quiz_id, answers |-> answers, status |-> 0,
     overlapped |-> overlapped, seen |-> <<>>]

\* a slot without a request
Idle == Request("idle", "done", 0, <<>>, FALSE)

\* the rows present when the model starts: a completed attempt of the
\* user on quiz 2, taken before quiz 2 was made inactive
SeedAttempt(user) ==
    [AttemptRow(1, user, 2, 0) EXCEPT
        !.completed_at = 0, !.score = 10000, !.is_passed = TRUE, !.time_taken = 0]

SeedResponse ==
    [ResponseRow(1, 3, "") EXCEPT
        !.selected_choices = {6}, !.is_correct = "True", !.points_earned = 1]

NoCall == [correct_answers |-> 0, total_questions |-> 0, time_taken |-> 0,
           time_limit |-> 0, bonus_tenths |-> 10, score |-> 0]

NoResponse == Response("none", Anonymous, 0, 0)

\* The handlers read and write only rows of request.user, so the requests of
\* different users act on disjoint rows: a behaviour follows the requests of
\* one user, the actor, and the requests made without credentials.
Init ==
    /\ actor \in Users
    /\ attempts = {SeedAttempt(actor)}
    /\ responses = {SeedResponse}
    /\ nextAttemptId = 2
    /\ now = 0
    /\ last = NoResponse
    /\ scoreCall = NoCall
    /\ mood_entries = <<>>
    /\ refresh_tokens = {}
    /\ sync_records = {}
    /\ staff = {}
    /\ inflight = [slot \in Slots |-> Idle]

\* the request's outcome becomes the state and its response is kept in last;
\* no primary key above MaxAttemptId is given out
Apply(out) ==
    /\ out.nextAttemptId <= MaxAttemptId + 1
    /\ attempts' = out.attempts
    /\ responses' = out.responses
    /\ nextAttemptId' = out.nextAttemptId
    /\ last' = out.response
    /\ UNCHANGED <<actor, now, scoreCall, siteVars, inflight>>

Start == \E user \in {actor, Anonymous}, quiz_id \in QuizIds :
    Apply(start_outcome(user, quiz_id))

SaveAnswer == \E user \in {actor, Anonymous}, quiz_id \in QuizIds, ans \in AnswerSet :
    Apply(save_answer_outcome(user, quiz_id, ans.question_id,
                              ans.selected_choice_ids, ans.text_answer))

Submit == \E user \in {actor, Anonymous}, quiz_id \in QuizIds, answers \in AnswerLists :
    Apply(submit_outcome(user, quiz_id, answers))

Retake == \E user \in {actor, Anonymous}, quiz_id \in QuizIds :
    Apply(retake_outcome(user, quiz_id))

Detail == \E user \in {actor, Anonymous}, quiz_id \in QuizIds :
    Apply(detail_outcome(user, quiz_id))

QuizQuestions == \E user \in {actor, Anonymous}, quiz_id \in QuizIds :
    Apply(questions_outcome(user, quiz_id))

Progress == \E user \in {actor, Anonymous}, quiz_id \in QuizIds \cup EmptyQuizIds :
    Apply(progress_outcome(user, quiz_id))

\* a start of a quiz that has no questions yet
StartEmpty == \E user \in {actor, Anonymous}, quiz_id \in EmptyQuizIds :
    Apply(start_outcome(user, quiz_id))

Result == \E user \in {actor, Anonymous}, quiz_id \in QuizIds :
    Apply(result_outcome(user, quiz_id))

Feedback == \E user \in {actor, Anonymous}, quiz_id \in QuizIds :
    Apply(feedback_outcome(user, quiz_id))

Analytics == \E user \in {actor, Anonymous}, quiz_id \in QuizIds :
    Apply(analytics_outcome(user, quiz_id))

QuizList == \E user \in {actor, Anonymous}, difficulty \in Difficulties \cup {""},
               mood_based \in BOOLEAN, latest_mood \in MoodLevels :
    Apply(list_outcome(user, difficulty, mood_based, latest_mood))

\* time passes
Tick ==
    /\ now + TickSeconds <= MaxTicks * TickSeconds
    /\ now' = now + TickSeconds
    /\ UNCHANGED <<actor, attempts, responses, nextAttemptId, last, scoreCall,
                   siteVars, inflight>>

Next ==
    \/ Start
    \/ SaveAnswer
    \/ Submit
    \/ Retake
    \/ Tick

Spec == Init /\ [][Next]_vars

(***************************************************************************)
(* The same requests together with the read-only views.  No view reads the *)
(* clock, so this specification leaves the clock alone.                    *)
(***************************************************************************)
ViewNext ==
    \/ Start
    \/ SaveAnswer
    \/ Submit
    \/ Retake
    \/ Detail
    \/ QuizQuestions
    \/ Progress
    \/ StartEmpty
    \/ Result
    \/ Feedback
    \/ Analytics
    \/ QuizList

ViewSpec == Init /\ [][ViewNext]_vars

(***************************************************************************)
(* The quiz list together with the mood entries it reads.  (In ViewSpec    *)
(* the mood table is not followed and the level of the newest entry is an  *)
(* input of the list request.)                                             *)
(***************************************************************************)
\* a second user, whose entries the list of the actor must not read
OtherUser == IF actor = "student" THEN "teacher" ELSE "student"

LogMood == \E user \in {actor, OtherUser, Anonymous}, mood_level \in 0..5 :
    LET out == mood_post_outcome(user, mood_level)
    IN  /\ Len(out.mood_entries) <= MaxMoods
        /\ mood_entries' = out.mood_entries
        /\ last' = Response("mood", user, 0, out.status)
        /\ UNCHANGED <<actor, attempts, responses, nextAttemptId, now, scoreCall,
                       refresh_tokens, sync_records, staff, inflight>>

MoodQuizList == \E user \in {actor, Anonymous}, difficulty \in Difficulties \cup {""},
                   mood_based \in BOOLEAN :
    Apply(list_outcome(user, difficulty, mood_based, latest_mood_level(user)))

MoodNext ==
    \/ LogMood
    \/ MoodQuizList

MoodSpec == Init /\ [][MoodNext]_vars

(***************************************************************************)
(* The account, admin and sync endpoints.  The responses are kept in last  *)
(* with the endpoint as op.                                                *)
(***************************************************************************)
\* a request that touches one of the tables of siteVars at most
SiteApply(op, user, status) ==
    /\ last' = Response(op, user, 0, status)
    /\ UNCHANGED <<actor, attempts, responses, nextAttemptId, now, scoreCall,
                   mood_entries, inflight>>

Login == \E user \in {actor, OtherUser}, password_ok \in BOOLEAN :
    LET out == login_outcome(user, password_ok)
    IN  /\ Cardinality(out.refresh_tokens) <= MaxTokens
        /\ refresh_tokens' = out.refresh_tokens
        /\ SiteApply("login", user, out.status)
        /\ UNCHANGED <<sync_records, staff>>

Logout == \E user \in {actor, Anonymous}, token \in TokenIds :
    LET out == logout_outcome(user, token)
    IN  /\ refresh_tokens' = out.refresh_tokens
        /\ SiteApply("logout", user, out.status)
        /\ UNCHANGED <<sync_records, staff>>

RefreshToken == \E token \in TokenIds, rotation \in RotationModes,
                  refused \in {400, 500} :
    LET out == refresh_outcome(token, rotation, refused)
    IN  /\ refresh_tokens' = out.refresh_tokens
        /\ SiteApply("refresh", Anonymous, out.status)
        /\ UNCHANGED <<sync_records, staff>>

\* the lifetime of a refresh token ends
Expire == \E t \in refresh_tokens :
    /\ ~t.expired
    /\ refresh_tokens' = (refresh_tokens \ {t}) \cup {[t EXCEPT !.expired = TRUE]}
    /\ last' = NoResponse
    /\ UNCHANGED <<actor, attempts, responses, nextAttemptId, now, scoreCall,
                   mood_entries, sync_records, staff, inflight>>

\* the Django admin site sets or clears is_staff of the actor
SetStaff == \E flag \in BOOLEAN :
    /\ staff' = IF flag THEN staff \cup {actor} ELSE staff \ {actor}
    /\ staff' # staff
    /\ last' = NoResponse
    /\ UNCHANGED <<actor, attempts, responses, nextAttemptId, now, scoreCall,
                   mood_entries, refresh_tokens, sync_records, inflight>>

AdminRequest == \E user \in {actor, Anonymous} :
    /\ SiteApply("admin", user, admin_status(user))
    /\ UNCHANGED <<refresh_tokens, sync_records, staff>>

SyncRequest == \E user \in {actor, Anonymous}, handler \in SyncHandlers,
                 body \in Bodies :
    LET out == sync_outcome(user, handler, body)
    IN  /\ sync_records' = out.sync_records
        /\ SiteApply(handler[1], user, out.status)
        /\ UNCHANGED <<refresh_tokens, staff>>

SiteNext ==
    \/ Login
    \/ Logout
    \/ RefreshToken
    \/ Expire
    \/ SetStaff
    \/ AdminRequest
    \/ SyncRequest

SiteSpec == Init /\ [][SiteNext]_vars

(***************************************************************************)
(* Two requests of the actor at the same time.  A handler is a sequence of *)
(* steps, each a query or a transaction of the database; the steps of the  *)
(* two requests interleave.  StartQuizView and RetakeQuizView run in       *)
(* autocommit; SubmitQuizView.post is @transaction.atomic, after its       *)
(* permission class has run.  No request locks a row it has read.          *)
(***************************************************************************)
RaceOps == {"start", "submit", "retake"}
RaceQuizIds == {1}
RaceAnswerLists == {<<RightQ1>>, <<RightQ2>>}

InProgress(request) == request.op # "idle" /\ request.pc # "done"

\* the first step of a handler
FirstStep(op) ==
    CASE op = "start" -> "read"
      [] op = "submit" -> "permission"
      [] op = "retake" -> "delete"

\* the request answers
Respond(slot, response) ==
    /\ inflight' = [inflight EXCEPT ![slot].pc = "done",
                                    ![slot].status = response.status]
    /\ last' = response

\* the request goes on to its next step
Advance(slot, pc) ==
    /\ inflight' = [inflight EXCEPT ![slot].pc = pc,
                                    ![slot].seen = <<attempts, responses>>]
    /\ last' = last

IssueRequest == \E slot \in Slots, op \in RaceOps, quiz_id \in RaceQuizIds,
                  answers \in RaceAnswerLists \cup {<<>>} :
    /\ inflight[slot] = Idle
    /\ (op = "submit") = (answers # <<>>)
    /\ inflight' = [t \in Slots |->
          IF t = slot
          THEN Request(op, FirstStep(op), quiz_id, answers,
                       \E other \in Slots \ {slot} : InProgress(inflight[other]))
          ELSE IF InProgress(inflight[t])
               THEN [inflight[t] EXCEPT !.overlapped = TRUE]
               ELSE inflight[t]]
    /\ UNCHANGED <<actor, attempts, responses, nextAttemptId, now, last, scoreCall,
                   siteVars>>

\* CanSubmitQuiz.has_permission, before the handler and its transaction
CheckPermission == \E slot \in Slots :
    LET request == inflight[slot]
    IN  /\ request.op = "submit" /\ request.pc = "permission"
        /\ IF CanSubmitQuiz(actor, request.quiz)
           THEN Advance(slot, "validate")
           ELSE Respond(slot, Response("submit", actor, request.quiz, 403))
        /\ UNCHANGED <<actor, attempts, responses, nextAttemptId, now, scoreCall,
                       siteVars>>

\* SubmitQuizView.post 86-96: the quiz and validate_quiz_submission
Validate == \E slot \in Slots :
    LET request == inflight[slot]
    IN  /\ request.op = "submit" /\ request.pc = "validate"
        /\ IF ~quiz_found(request.quiz)
           THEN Respond(slot, Response("submit", actor, request.quiz, 404))
           ELSE IF ~validate_quiz_submission(request.answers, request.quiz, actor)
           THEN Respond(slot, Response("submit", actor, request.quiz, 400))
           ELSE Advance(slot, "write")
        /\ UNCHANGED <<actor, attempts, responses, nextAttemptId, now, scoreCall,
                       siteVars>>

\* SubmitQuizView.post 98-172 and the commit.  The database engine is not
\* part of the source: an engine that locks rows lets the write of a
\* transaction go through after another has committed; an engine that
\* locks the database fails the write of a transaction whose reads are out
\* of date ("database is locked"), which the framework answers with 500.
WriteSubmit == \E slot \in Slots :
    LET request == inflight[slot]
        out == submit_write(actor, request.quiz, request.answers)
    IN  /\ request.op = "submit" /\ request.pc = "write"
        /\ \/ /\ out.nextAttemptId <= MaxAttemptId + 1
              /\ attempts' = out.attempts
              /\ responses' = out.responses
              /\ nextAttemptId' = out.nextAttemptId
              /\ Respond(slot, out.response)
           \/ /\ request.seen # <<attempts, responses>>
              /\ Respond(slot, Response("submit", actor, request.quiz, 500))
              /\ UNCHANGED <<attempts, responses, nextAttemptId>>
        /\ UNCHANGED <<actor, now, scoreCall, siteVars>>

\* StartQuizView.post up to the look for an active attempt
StartRead == \E slot \in Slots :
    LET request == inflight[slot]
        out == start_outcome(actor, request.quiz)
    IN  /\ request.op = "start" /\ request.pc = "read"
        /\ IF out.response.status \in {404, 403, 200}
           THEN Respond(slot, out.response)
           ELSE Advance(slot, "create")
        /\ UNCHANGED <<actor, attempts, responses, nextAttemptId, now, scoreCall,
                       siteVars>>

\* RetakeQuizView.post up to the delete of the previous attempts
RetakeDelete == \E slot \in Slots :
    LET request == inflight[slot]
        deleted == user_attempts(actor, request.quiz)
    IN  /\ request.op = "retake" /\ request.pc = "delete"
        /\ IF ~quiz_found(request.quiz)
           THEN /\ Respond(slot, Response("retake", actor, request.quiz, 404))
                /\ UNCHANGED <<attempts, responses>>
           ELSE /\ attempts' = attempts \ deleted
                /\ responses' = cascade_delete(responses, deleted)
                /\ Advance(slot, "create")
        /\ UNCHANGED <<actor, nextAttemptId, now, scoreCall, siteVars>>

\* QuizAttempt.objects.create of StartQuizView and of RetakeQuizView
CreateAttempt == \E slot \in Slots :
    LET request == inflight[slot]
        inserted == insert_attempt(attempts,
                        AttemptRow(nextAttemptId, actor, request.quiz, now))
    IN  /\ request.op \in {"start", "retake"} /\ request.pc = "create"
        /\ nextAttemptId <= MaxAttemptId
        /\ attempts' = inserted.attempts
        /\ IF inserted.ok
           THEN /\ nextAttemptId' = nextAttemptId + 1
                /\ Respond(slot, [Response(request.op, actor, request.quiz, 201)
                                     EXCEPT !.attempt_id = nextAttemptId])
           ELSE /\ nextAttemptId' = nextAttemptId
                /\ Respond(slot, Response(request.op, actor, request.quiz, 500))
        /\ UNCHANGED <<actor, responses, now, scoreCall, siteVars>>

\* the answered requests leave
Collect ==
    /\ \A slot \in Slots : ~InProgress(inflight[slot])
    /\ \E slot \in Slots : inflight[slot] # Idle
    /\ inflight' = [slot \in Slots |-> Idle]
    /\ UNCHANGED <<actor, attempts, responses, nextAttemptId, now, last, scoreCall,
                   siteVars>>

RaceNext ==
    \/ IssueRequest
    \/ CheckPermission
    \/ Validate
    \/ WriteSubmit
    \/ StartRead
    \/ RetakeDelete
    \/ CreateAttempt
    \/ Collect

RaceSpec == Init /\ [][RaceNext]_vars

(***************************************************************************)
(* calculate_score on its own: every call with inputs from the bounded     *)
(* sets.                                                                   *)
(***************************************************************************)
\* the difficulty_bonus values of the calls, in tenths
BonusTenths == {-10, 0, 5, 10, MaxBonusTenths}

ScoreInit == Init /\ actor = "student"

CalculateScore ==
    /\ \E correct_answers \in 0..MaxCount, total_questions \in 0..MaxCount,
          ticks \in 0..MaxTicks, time_limit \in 0..1,
          bonus_tenths \in BonusTenths :
          scoreCall' = [correct_answers |-> correct_answers,
                        total_questions |-> total_questions,
                        time_taken |-> ticks * TickSeconds,
                        time_limit |-> time_limit,
                        bonus_tenths |-> bonus_tenths,
                        score |-> calculate_score(correct_answers, total_questions,
                                     ticks * TickSeconds, time_limit, bonus_tenths)]
    /\ UNCHANGED <<actor, attempts, responses, nextAttemptId, now, last,
                   siteVars, inflight>>

ScoreNext == CalculateScore

ScoreSpec == ScoreInit /\ [][ScoreNext]_vars

(***************************************************************************)
(*                             The claims                                  *)
(***************************************************************************)
\* the stored response of (attempt, question) in a responses table
response_of(resps, attempt_id, question) ==
    CHOOSE r \in resps : r.attempt = attempt_id /\ r.question = question

\* the step is the answer to a request of the named kind (the clock's step
\* leaves last as it is)
Answers(op) == last'.op = op /\ now' = now

\* C1, the rejection: in every state, a submit by a user who has a completed
\* attempt on the quiz is refused (no 200) and leaves both tables as they are.
C1_SubmitRefused ==
    \A a \in attempts : a.completed_at # NoneVal =>
        \A answers \in AnswerLists :
            LET out == submit_outcome(a.user, a.quiz, answers)
            IN  /\ out.response.status \in {400, 403, 404}
                /\ out.attempts = attempts
                /\ out.responses = responses

\* C1, the frame: a completed attempt row (score, is_passed, completed_at and
\* the rest) is the same after every step, except a successful retake of its
\* user on its quiz.
C1_RowKept ==
    \A a \in attempts : a.completed_at # NoneVal =>
        \/ a \in attempts'
        \/ /\ Answers("retake") /\ last'.status = 201
           /\ last'.user = a.user /\ last'.quiz = a.quiz

\* C1: once a user has a completed attempt on a quiz, every later submit by
\* that user for that quiz is rejected, and the attempt's score, is_passed and
\* completed_at stay as they were until that user calls retake.
C1_CompletedAttemptFrozen == []C1_SubmitRefused /\ [][C1_RowKept]_vars

\* C1 witness: the user has a completed attempt on the active quiz and the
\* submit that followed was refused.
C1_Witness ==
    /\ last.op = "submit" /\ last.quiz = 1 /\ last.status = 403
    /\ is_authenticated(last.user)
    /\ completed_attempts(last.user, 1) # {}

\* the indices of an answers list whose answer the loop marks correct
\* according to the claim as written: the ids given equal the right choices
marked_by_given_ids(answers) ==
    {i \in 1..Len(answers) :
        /\ answers[i].selected_choice_ids # {}
        /\ answers[i].selected_choice_ids = correct_choices_of(answers[i].question_id)}

\* ... and as amended: the ids given that are choices of the question equal
\* the right choices
marked_by_own_ids(answers) ==
    {i \in 1..Len(answers) :
        /\ answers[i].selected_choice_ids # {}
        /\ answers[i].selected_choice_ids \cap question_choices(answers[i].question_id)
              = {c \in question_choices(answers[i].question_id) : choice_is_correct(c)}}

\* the last answer of the list for each question is the one whose grading is
\* stored
last_for_question(answers, i) ==
    \A j \in (i + 1)..Len(answers) : answers[j].question_id # answers[i].question_id

\* the step is the answer to a submit of this answers list by this user
SubmitStep(user, quiz_id, answers) ==
    submit_outcome(user, quiz_id, answers)
        = Outcome(attempts', responses', nextAttemptId', last')

\* what C2 says of the step that answers a successful submit of an answers
\* list, given the set of indices marked correct
C2_Grading(answers, marked) ==
    ( /\ Answers("submit") /\ last'.status = 200
      /\ SubmitStep(last'.user, last'.quiz, answers) ) =>
          /\ \A i \in 1..Len(answers) :
                LET r == response_of(responses', last'.attempt_id,
                                     answers[i].question_id)
                IN  last_for_question(answers, i) =>
                      /\ answers[i].selected_choice_ids # {} =>
                            (r.is_correct = "True" <=> i \in marked)
                      /\ r.points_earned =
                            IF r.is_correct = "True"
                            THEN question_points(answers[i].question_id) ELSE 0
          /\ last'.correct_answers = Cardinality(marked)

\* C2 as written: a response with selected_choice_ids is marked correct
\* exactly when the set of ids given equals the set of the question's right
\* choices; only those earn points and count.
C2_GivenIdsDecide ==
    [][\A answers \in AnswerLists :
          C2_Grading(answers, marked_by_given_ids(answers))]_vars

\* C2 as amended: a response with selected_choice_ids is marked correct exactly
\* when the ids given that are choices of that question are the question's
\* right choices (ids of other questions' choices are ignored); a response
\* marked correct earns the question's points and counts in correct_answers,
\* every other response earns 0.
C2_OwnIdsDecide ==
    [][\A answers \in AnswerLists :
          C2_Grading(answers, marked_by_own_ids(answers))]_vars

\* C2 witness: a submit was graded with one response right (one point) and
\* another wrong (no point).
C2_Witness ==
    /\ last.op = "submit" /\ last.status = 200 /\ last.correct_answers = 1
    /\ \E r \in attempt_responses(responses, last.attempt_id) :
          r.is_correct = "True" /\ r.points_earned = 1
    /\ \E r \in attempt_responses(responses, last.attempt_id) :
          r.is_correct = "False" /\ r.points_earned = 0

\* C3: calculate_score returns a value from 0 to 100 (0 to 10000 hundredths)
\* for all inputs of the bounded sets, and 0 when total_questions is 0.
C3_ScoreInRange ==
    /\ scoreCall.score >= 0
    /\ scoreCall.score <= 10000
    /\ scoreCall.total_questions = 0 => scoreCall.score = 0

\* C3 witness: a call whose unclamped result is above 100 returned 100.
C3_Witness ==
    /\ scoreCall.total_questions > 0
    /\ final_score(scoreCall.correct_answers, scoreCall.total_questions,
                   scoreCall.time_taken, scoreCall.time_limit,
                   scoreCall.bonus_tenths) > 10000
    /\ scoreCall.score = 10000

\* the questions an answers list answers correctly
answered_correctly(answers) ==
    {answers[i].question_id : i \in marked_by_own_ids(answers)}

\* C4: after every successful submit of a started quiz is_passed is true exactly when the stored
\* score is at least the quiz's passing_score; a submit that answers every
\* question of the quiz correctly passes, and one that answers one of two
\* questions correctly (passing_score 70) does not pass.
C4_PassedIffScoreReached ==
    [][\A user \in {actor}, answers \in AnswerLists :
          (active_attempts(user, 1) # {} /\ SubmitStep(user, 1, answers)
              /\ last'.status = 200) =>
             LET a == CHOOSE r \in attempts' : r.id = last'.attempt_id
             IN  /\ a.is_passed <=> a.score >= 100 * quiz_passing_score(1)
                 /\ answered_correctly(answers) = quiz_questions(1) => a.is_passed
                 /\ ( /\ Cardinality(quiz_questions(1)) = 2
                      /\ Cardinality(answered_correctly(answers)) = 1
                      /\ quiz_passing_score(1) = 70 ) => ~a.is_passed]_vars

\* C5: a submit of a student on a quiz for which the student has no attempt
\* is answered 400 and stores nothing.
C5_SubmitWithoutAttemptRejected ==
    [][\A user \in {actor}, answers \in AnswerLists :
          (profile_role(user) = "student" /\ user_attempts(user, 1) = {}
              /\ SubmitStep(user, 1, answers)) =>
             /\ last'.status = 400
             /\ attempts' = attempts
             /\ responses' = responses]_vars

\* C6: a submit of a teacher is answered 403, whether or not the teacher has
\* started the quiz; the same submit of a student who has started the quiz,
\* within the time limit, is answered 200.
C6_TeacherCannotSubmit ==
    [][\A user \in {actor} :
          /\ (profile_role(user) = "teacher" /\ SubmitStep(user, 1, <<RightQ1, RightQ2>>))
                => last'.status = 403
          /\ ( /\ profile_role(user) = "student"
               /\ active_attempts(user, 1) # {}
               /\ ~time_limit_exceeded(1, first(active_attempts(user, 1)))
               /\ SubmitStep(user, 1, <<RightQ1, RightQ2>>) )
                => last'.status = 200]_vars

\* the attempts of a user on a quiz after the step
user_attempts_after(user, quiz) ==
    {a \in attempts' : a.user = user /\ a.quiz = quiz}

C8_RetakeStartsAfresh ==
    [][\A user \in {last'.user}, quiz_id \in {last'.quiz} :
          (Answers("retake") /\ last'.status = 201) =>
            /\ \A old \in user_attempts(user, quiz_id) :
                  /\ old \notin attempts'
                  /\ \A r \in responses' : r.attempt # old.id
            /\ \A a \in attempts : a.id # last'.attempt_id
            /\ \E a \in attempts' :
                  /\ user_attempts_after(user, quiz_id) = {a}
                  /\ a.id = last'.attempt_id
                  /\ a.completed_at = NoneVal
                  /\ a.score = NoneVal
                  /\ attempt_responses(responses', a.id) = {}
            /\ CanSubmitQuiz(user, quiz_id)'
            /\ validate_quiz_submission(<<RightQ1>>, quiz_id, user)']_vars

\* C8 witness: a retake replaced an earlier attempt, and submit is allowed.
C8_Witness ==
    /\ last.op = "retake" /\ last.status = 201 /\ last.attempt_id = 3
    /\ Cardinality(user_attempts(last.user, last.quiz)) = 1
    /\ CanSubmitQuiz(last.user, last.quiz)

\* the quizzes whose is_active is false
InactiveQuizzes == {q \in Quizzes : ~quiz_is_active(q)}

\* the endpoints of one quiz
PerQuizOps == {"detail", "start", "questions", "progress", "save_answer",
               "submit", "result", "feedback", "retake", "analytics"}

\* C9, the responses: the detail of an inactive quiz is 404, no endpoint of an
\* inactive quiz answers 200 or 201, and no list contains an inactive quiz.
C9_NoSuccess ==
    /\ (last.op = "detail" /\ last.quiz \in InactiveQuizzes) => last.status = 404
    /\ (last.op \in PerQuizOps /\ last.quiz \in InactiveQuizzes)
          => last.status \notin {200, 201}
    /\ last.op = "list" => last.listed \cap InactiveQuizzes = {}

\* C9, the frame: a request on an inactive quiz leaves the attempts and the
\* responses as they are.
C9_NothingStored ==
    (last'.op \in PerQuizOps /\ last'.quiz \in InactiveQuizzes)
        => (attempts' = attempts /\ responses' = responses)

\* C9: an inactive quiz is treated as not found: its detail is 404, the list
\* never contains it, and for every role none of start, questions, progress,
\* save-answer, submit, result, feedback, retake and analytics succeeds on it
\* or changes a stored attempt or response.
C9_InactiveQuizNotFound == []C9_NoSuccess /\ [][C9_NothingStored]_vars

\* C9 witness: a teacher or admin, whom HasQuizAccess lets through, asked for
\* the detail of the inactive quiz and got 404.
C9_Witness ==
    /\ last.op = "detail" /\ last.quiz \in InactiveQuizzes /\ last.status = 404
    /\ HasQuizAccess(last.user, last.quiz)

\* C10: a request without credentials to an endpoint of a quiz that is found
\* is answered 403 and leaves the attempts and the responses as they are.
C10_AnonymousRejected ==
    [][(last'.user = Anonymous /\ last'.op \in PerQuizOps /\ quiz_found(last'.quiz))
          => (last'.status = 403 /\ attempts' = attempts /\ responses' = responses)]_vars

\* the step is the answer to a list request with these parameters of a user
\* whose newest mood entry is read from the table
ListStep(user, difficulty, mood_based) ==
    /\ last' = list_outcome(user, difficulty, mood_based,
                            latest_mood_level(user)).response
    /\ mood_entries' = mood_entries

\* the active quizzes that match the difficulty filter
matching_quizzes(difficulty) ==
    {q \in Quizzes : quiz_is_active(q)
                     /\ (difficulty = "" \/ quiz_difficulty(q) = difficulty)}

\* the level of the entry of the user that no entry of the user follows
newest_level(user) ==
    IF \A i \in 1..Len(mood_entries) : mood_entries[i].user # user THEN 0
    ELSE LET i == CHOOSE k \in 1..Len(mood_entries) :
                     /\ mood_entries[k].user = user
                     /\ \A j \in (k + 1)..Len(mood_entries) : mood_entries[j].user # user
         IN  mood_entries[i].mood_level

\* C11: for an authenticated user and mood_based not false, the list holds
\* exactly the matching easy quizzes when the user's newest mood entry has
\* level 1 or 2, exactly the matching medium and hard quizzes when it has
\* level 4 or 5, and every matching active quiz when it has level 3 or the
\* user has no entry; with mood_based=false it holds every matching active
\* quiz whatever the entries are.
C11_MoodBasedList ==
    [][\A difficulty \in Difficulties \cup {""}, mood_based \in BOOLEAN :
          ( /\ last'.op = "list" /\ last'.status = 200
            /\ is_authenticated(last'.user)
            /\ ListStep(last'.user, difficulty, mood_based) ) =>
              LET level == newest_level(last'.user)
                  matching == matching_quizzes(difficulty)
              IN  last'.listed =
                    IF mood_based /\ level \in {1, 2}
                    THEN {q \in matching : quiz_difficulty(q) = "easy"}
                    ELSE IF mood_based /\ level \in {4, 5}
                    THEN {q \in matching : quiz_difficulty(q) \in {"medium", "hard"}}
                    ELSE matching]_vars

\* C11 witness: the user logged a happy mood and then a sad one, and the list
\* holds the easy quiz alone.
C11_Witness ==
    /\ last.op = "list" /\ is_authenticated(last.user) /\ last.listed = {3}
    /\ \E i, j \in 1..Len(mood_entries) :
          /\ i < j
          /\ mood_entries[i] = MoodEntry(last.user, 5)
          /\ mood_entries[j] = MoodEntry(last.user, 1)

\* a logout of the actor with this refresh token, answered 200
LogoutStep(token) ==
    /\ Answers("logout")
    /\ last'.status = 200
    /\ logout_outcome(last'.user, token).status = 200
    /\ refresh_tokens' = logout_outcome(last'.user, token).refresh_tokens

\* C12: a successful logout invalidates the refresh token it was given: after
\* the logout a refresh with that token is not answered 200, whatever the
\* rotation configuration.
C12_LogoutInvalidatesToken ==
    [][\A token \in TokenIds :
          LogoutStep(token) =>
              \A rotation \in RotationModes, refused \in {400, 500} :
                  refresh_outcome(token, rotation, refused)'.status # 200]_vars

SyncEndpoints == {handler[1] : handler \in SyncHandlers}
SuccessStatuses == {200, 201}

\* C13: a request to a sync endpoint by an authenticated user is answered
\* with a success status that does not depend on the body, a request without
\* credentials is refused, and either way every table stays as it was.
C13_SyncIsStub ==
    [][last'.op \in SyncEndpoints /\ now' = now =>
          /\ UNCHANGED <<sync_records, refresh_tokens, staff, mood_entries,
                         attempts, responses, nextAttemptId>>
          /\ IF is_authenticated(last'.user)
             THEN /\ last'.status \in SuccessStatuses
                  /\ \E handler \in SyncHandlers :
                        /\ handler[1] = last'.op
                        /\ \A body \in Bodies :
                              /\ sync_outcome(last'.user, handler, body).status
                                    = last'.status
                              /\ sync_outcome(last'.user, handler, body).body_status
                                    = "success"
             ELSE last'.status \notin SuccessStatuses]_vars

\* C13 witness: with a refresh token stored, the user stored offline data
\* and the tables are as they were.
C13_Witness ==
    /\ last.op = "offline-data" /\ last.status = 201
    /\ is_authenticated(last.user)
    /\ refresh_tokens # {} /\ sync_records = {}

\* C14: IsAdminUser grants exactly the authenticated users that are staff or
\* have a profile of role admin, which are the users IsAdminOnly grants: seen
\* at each request to an admin view.
C14_AdminPermissions ==
    [][Answers("admin") =>
          \A user \in {last'.user} :
              /\ last'.status = 200 <=>
                    /\ is_authenticated(user)
                    /\ is_staff(user) \/ (has_profile(user) /\ profile_role(user) = "admin")
              /\ IsAdminUser(user) <=> IsAdminOnly(user)]_vars

\* the user is a student with an attempt of the quiz that can still be
\* submitted
MaySubmit(user, quiz_id) ==
    /\ has_profile(user) /\ profile_role(user) = "student"
    /\ quiz_found(quiz_id) /\ CanSubmitQuiz(user, quiz_id)
    /\ active_attempts(user, quiz_id) # {}

\* the answer is a dictionary with a question_id
well_formed(answer) == answer.question_id # 0

\* a required question of the quiz that the list does not answer
unanswered_required(quiz_id, answers) ==
    {qn \in quiz_questions(quiz_id) :
        /\ question_is_required(qn)
        /\ \A i \in 1..Len(answers) : answers[i].question_id # qn}

\* the submit is answered 200, completes the attempt and counts every
\* question of the quiz
AcceptedInFull(user, quiz_id) ==
    /\ last'.status = 200
    /\ last'.total_questions = Cardinality(quiz_questions(quiz_id))
    /\ \E a \in attempts' :
          /\ a.id = last'.attempt_id /\ a.user = user /\ a.quiz = quiz_id
          /\ a.completed_at # NoneVal /\ a.score = last'.score

\* C15 as stated: a submit whose list holds at least one well-formed answer
\* and leaves required questions unanswered, by a user who may submit, is
\* answered 200, completes the attempt and counts every question.
C15_OneWellFormedAnswerSuffices ==
    [][Answers("submit") =>
          \A user \in {last'.user}, quiz_id \in {last'.quiz} :
              MaySubmit(user, quiz_id) =>
                  \A answers \in AnswerLists :
                      /\ \E i \in 1..Len(answers) : well_formed(answers[i])
                      /\ unanswered_required(quiz_id, answers) # {}
                      /\ SubmitStep(user, quiz_id, answers)
                      => AcceptedInFull(user, quiz_id)]_vars

\* C15 amended: the same when the list is not empty and every answer of it is
\* well-formed and names a question of the quiz.
C15_PartialSubmitAccepted ==
    [][Answers("submit") =>
          \A user \in {last'.user}, quiz_id \in {last'.quiz} :
              MaySubmit(user, quiz_id) =>
                  \A answers \in AnswerLists :
                      /\ Len(answers) > 0
                      /\ \A i \in 1..Len(answers) :
                            /\ well_formed(answers[i])
                            /\ answers[i].question_id \in quiz_questions(quiz_id)
                      /\ unanswered_required(quiz_id, answers) # {}
                      /\ SubmitStep(user, quiz_id, answers)
                      => AcceptedInFull(user, quiz_id)]_vars

\* C15 witness: a submit was accepted and counted the two questions of the
\* quiz while the attempt holds a response to one of them only.
C15_Witness ==
    /\ last.op = "submit" /\ last.status = 200 /\ last.total_questions = 2
    /\ profile_role(last.user) = "student"
    /\ Cardinality({r.question : r \in attempt_responses(responses, last.attempt_id)}) = 1
    /\ \E a \in attempts : a.id = last.attempt_id /\ a.completed_at # NoneVal

\* C16: a progress response reports 100 x responses of the attempt / questions
\* of the quiz (to two decimals), 0 without an attempt or without questions,
\* completed exactly when the attempt has completed_at, and a progress
\* between 0 and 100.
C16_Progress ==
    [][Answers("progress") /\ last'.status = 200 =>
          \A user \in {last'.user}, quiz_id \in {last'.quiz} :
              LET total == Cardinality(quiz_questions(quiz_id))
                  rows == user_attempts(user, quiz_id)
              IN  /\ last'.progress \in 0..10000
                  /\ rows = {} => last'.progress = 0 /\ ~last'.completed
                  /\ total = 0 => last'.progress = 0
                  /\ \A a \in rows :
                        LET answered == Cardinality(attempt_responses(responses, a.id))
                        IN  /\ total > 0 =>
                                   /\ 2 * (last'.progress * total - answered * 10000) <= total
                                   /\ 2 * (answered * 10000 - last'.progress * total) <= total
                            /\ last'.completed <=> a.completed_at # NoneVal]_vars

\* C16 witness: with one of the two questions answered the progress is 50.00
\* and the attempt is not completed.
C16_Witness ==
    /\ last.op = "progress" /\ last.status = 200
    /\ last.progress = 5000 /\ ~last.completed
    /\ Cardinality(attempt_responses(responses, last.attempt_id)) = 1

\* the attempts that are not completed and started more than the time limit
\* of their quiz ago
Overdue ==
    {a \in attempts :
        /\ a.completed_at = NoneVal
        /\ quiz_time_limit(a.quiz) > 0
        /\ now - a.started_at > quiz_time_limit(a.quiz) * 60}

\* C19: while an attempt is overdue, a submit and a save-answer of its user
\* for its quiz are refused and change nothing; the attempt stays as it is,
\* not completed and without score, in every step but a retake answered 201,
\* and the user gets no other attempt of the quiz but by that retake.
C19_OverdueAttemptIsDead ==
    [][\A a \in Overdue :
          /\ a.score = NoneVal
          /\ (\E op \in {"submit", "save_answer"} : Answers(op))
             /\ last'.user = a.user /\ last'.quiz = a.quiz
             => /\ last'.status = 403
                /\ UNCHANGED <<attempts, responses>>
          /\ ~(Answers("retake") /\ last'.status = 201
               /\ last'.user = a.user /\ last'.quiz = a.quiz)
             => /\ a \in attempts'
                /\ user_attempts(a.user, a.quiz)' = {a}]_vars

\* C19 witness: 90 seconds after the start of an attempt of the quiz with a
\* limit of one minute a submit was refused and the attempt is still open.
C19_Witness ==
    /\ last.op = "submit" /\ last.status = 403
    /\ \E a \in Overdue : a.user = last.user /\ a.quiz = last.quiz

\* the questions of the quiz whose response on the attempt is marked correct
questions_marked_correct(resps, attempt_id, quiz_id) ==
    {qn \in quiz_questions(quiz_id) :
        \E r \in attempt_responses(resps, attempt_id) :
            r.question = qn /\ r.is_correct = "True"}

\* C20: a submit answered 200, of a student whose attempt had no responses
\* yet, reports a correct_answers that is at most total_questions and is the
\* number of questions of the quiz whose stored response is marked correct.
C20_CorrectAnswersCountsQuestions ==
    [][Answers("submit") /\ last'.status = 200 =>
          \A user \in {last'.user}, quiz_id \in {last'.quiz} :
              /\ profile_role(user) = "student"
              /\ \E a \in active_attempts(user, quiz_id) :
                    attempt_responses(responses, a.id) = {}
              => /\ last'.correct_answers <= last'.total_questions
                 /\ last'.correct_answers =
                       Cardinality(questions_marked_correct(
                                       responses', last'.attempt_id, quiz_id))]_vars

BothAnswered(op) ==
    \A slot \in Slots :
        /\ inflight[slot].op = op /\ inflight[slot].pc = "done"
        /\ inflight[slot].overlapped

BothReadOpenAttempt ==
    /\ profile_role(actor) = "student"
    /\ \A slot \in Slots :
          /\ inflight[slot].seen # <<>>
          /\ \E a \in inflight[slot].seen[1] :
                /\ a.user = actor /\ a.quiz = inflight[slot].quiz
                /\ a.completed_at = NoneVal

\* C18: of two submits of a user for a quiz in flight at the same time at
\* most one is answered 200, and then the other is refused as already
\* submitted (400 by the validation or 403 by the permission).
C18_OneSubmitSucceeds ==
    BothAnswered("submit") /\ BothReadOpenAttempt =>
        \A s, t \in Slots :
            s # t /\ inflight[s].status = 200
                => inflight[t].status \in {400, 403}

\* the list names, in some answer, a question that is not of the quiz
names_foreign_question(answers, quiz_id) ==
    \E i \in 1..Len(answers) :
        /\ answers[i].question_id # 0
        /\ answers[i].question_id \notin quiz_questions(quiz_id)

\* C21: a submit that reaches the loop over the answers (the user may submit,
\* the quiz is found, the list is valid) with an answer naming a question that
\* is not of the quiz is answered 404, and the attempts and the responses are
\* as before it: no attempt created or completed, no response kept.
C21_SubmitAllOrNothing ==
    [][Answers("submit") =>
          \A user \in {last'.user}, quiz_id \in {last'.quiz} :
              /\ CanSubmitQuiz(user, quiz_id)
              /\ quiz_found(quiz_id)
              => \A answers \in {l \in AnswerLists : names_foreign_question(l, quiz_id)} :
                    /\ validate_quiz_submission(answers, quiz_id, user)
                    /\ SubmitStep(user, quiz_id, answers)
                    => /\ last'.status = 404
                       /\ UNCHANGED <<attempts, responses, nextAttemptId>>]_vars

\* C21 witness: a student whose open attempt has no responses got 404 for a
\* submit of quiz 1, whose list began with an answer to question 1.
C21_Witness ==
    /\ last.op = "submit" /\ last.status = 404 /\ quiz_found(last.quiz)
    /\ profile_role(last.user) = "student"
    /\ \E a \in active_attempts(last.user, last.quiz) :
          attempt_responses(responses, a.id) = {}

\* C22: while an attempt is completed, a save-answer and a submit of its user
\* for its quiz are refused and write nothing, and the responses of the
\* attempt stay as they are in every step but a retake answered 201, which
\* deletes them.
C22_CompletedResponsesFrozen ==
    [][\A a \in {b \in attempts : b.completed_at # NoneVal} :
          /\ (\E op \in {"submit", "save_answer"} : Answers(op))
             /\ last'.user = a.user /\ last'.quiz = a.quiz
             => /\ last'.status \in {400, 403}
                /\ UNCHANGED <<attempts, responses>>
          /\ IF Answers("retake") /\ last'.status = 201
                /\ last'.user = a.user /\ last'.quiz = a.quiz
             THEN attempt_responses(responses', a.id) = {}
             ELSE attempt_responses(responses', a.id)
                     = attempt_responses(responses, a.id)]_vars

\* C22 witness: a save-answer was refused for a quiz whose attempt, completed
\* by a submit of this behaviour, holds a response.
C22_Witness ==
    /\ last.op = "save_answer" /\ last.status = 403
    /\ \E a \in completed_attempts(last.user, last.quiz) :
          /\ quiz_found(a.quiz)
          /\ attempt_responses(responses, a.id) # {}

\* the responses of the attempt to the question: one at most
responses_to(resps, attempt_id, question) ==
    {r \in attempt_responses(resps, attempt_id) : r.question = question}

\* a save-answer step of this request
SaveAnswerStep(user, quiz_id, ans) ==
    save_answer_outcome(user, quiz_id, ans.question_id, ans.selected_choice_ids,
                        ans.text_answer)
        = Outcome(attempts', responses', nextAttemptId', last')

\* the stored response holds the answer: its choices are the choices of the
\* question among the given ids, its text is the given text, and is_correct
\* says whether the stored choices are the correct choices of the question
holds_answer(row, ans) ==
    /\ row.selected_choices = selected_choices_of(ans.question_id, ans.selected_choice_ids)
    /\ row.text_answer = sanitize_user_input(ans.text_answer)
    /\ row.is_correct = "True" <=>
          row.selected_choices = correct_choices_of(ans.question_id)

\* C23: after a save-answer of a student, answered 200, for a question that
\* had a response on the attempt, the response of the question holds the
\* answer of this request.
C23_ReanswerReplaces ==
    [][Answers("save_answer") /\ last'.status = 200 =>
          \A user \in {last'.user}, quiz_id \in {last'.quiz} :
              profile_role(user) = "student" =>
                  \A ans \in AnswerSet, a \in active_attempts(user, quiz_id) :
                      /\ responses_to(responses, a.id, ans.question_id) # {}
                      /\ SaveAnswerStep(user, quiz_id, ans)
                      => \A row \in responses_to(responses', a.id, ans.question_id) :
                            holds_answer(row, ans)]_vars

\* no two answers of the list name the same question
distinct_questions(answers) ==
    \A i, j \in 1..Len(answers) :
        answers[i].question_id = answers[j].question_id => i = j

\* C24: after a submit answered 200, of a student for an attempt they had
\* open, with a list that names no question twice, the result endpoint
\* reports the correct_answers and the total_questions of the submit response.
C24_ResultEqualsSubmit ==
    [][Answers("submit") /\ last'.status = 200 =>
          \A user \in {last'.user}, quiz_id \in {last'.quiz} :
              /\ profile_role(user) = "student"
              /\ active_attempts(user, quiz_id) # {}
              /\ \E answers \in {l \in AnswerLists : distinct_questions(l)} :
                    SubmitStep(user, quiz_id, answers)
              => /\ result_outcome(user, quiz_id)'.response.status = 200
                 /\ result_outcome(user, quiz_id)'.response.correct_answers
                       = last'.correct_answers
                 /\ result_outcome(user, quiz_id)'.response.total_questions
                       = last'.total_questions]_vars

====
